---- MODULE Spec2Model ----
(***************************************************************************)
(* Model of the axum-xml adapter (src/src/lib.rs): the Content-Type gate   *)
(* xml_content_type, the extractor Xml::from_request (gate, body           *)
(* buffering, XML decoding) and the response conversion                    *)
(* Xml::into_response.                                                     *)
(*                                                                         *)
(* The external collaborators are modelled by their interface:             *)
(*  - the body collector (Bytes::from_request) returns the request's body  *)
(*    or one of its own rejections, chosen nondeterministically;           *)
(*  - the XML decoder for the target type T is a function of the bytes,    *)
(*    any function: it is chosen in Init and kept in the variable de;      *)
(*  - the XML encoder returns, for a value, any of its possible results    *)
(*    (bytes written and Ok, or bytes written so far and an error).        *)
(* A header value is a sequence of atoms: an atom is a run of token        *)
(* characters ("application", "xml", ...), one of the single characters    *)
(* "/", "+", " ", or a byte that is not visible ASCII. Parameters          *)
(* ("; charset=...") are outside the values enumerated.                    *)
(***************************************************************************)
EXTENDS Naturals, Sequences, FiniteSets, TLC

\* ------------------------------------------------------------- bounds
NumRequests == 2
MaxHeaderLen == 5

Requests == 1..NumRequests

\* ------------------------------------------------------ header values
NonTextByte == "\\x80"
NameAtoms == {"application", "text", "xml", "json"}
Atoms == NameAtoms \cup {"/", "+", " ", NonTextByte}

CONTENT_TYPE == "content-type"

NoHeaders == [n \in {} |-> <<>>]
WithContentType(v) == [n \in {CONTENT_TYPE} |-> v]

ApplicationXml == <<"application", "/", "xml">>
TextXml == <<"text", "/", "xml">>
VendorXml == <<"application", "/", "vnd.custom", "+", "xml">>
ApplicationJson == <<"application", "/", "json">>
NotAMime == <<"not", " ", "a", " ", "mime">>

ExampleValues == {ApplicationXml, TextXml, VendorXml, ApplicationJson, NotAMime}

BoundedValues == UNION {[1..n -> Atoms] : n \in 0..MaxHeaderLen}

GateHeaderMaps ==
    {NoHeaders} \cup {WithContentType(v) : v \in BoundedValues \cup ExampleValues}

\* HeaderValue::to_str: Ok iff every byte is visible ASCII (or a tab).
to_str_ok(v) == \A i \in 1..Len(v) : v[i] # NonTextByte

\* A token character of the mime grammar; "+" is one, "/" and " " are not.
IsTokenAtom(a) == a \notin {"/", " ", NonTextByte}

\* Position of the first atom at or after `from` that is not a token, 0 if none.
FirstNonToken(v, from) ==
    LET bad == {i \in from..Len(v) : ~IsTokenAtom(v[i])}
    IN IF bad = {} THEN 0 ELSE CHOOSE i \in bad : \A j \in bad : i <= j

\* content_type.parse::<mime::Mime>(): the type runs to the first "/", which
\* must not be the first character; the subtype runs to the end; any other
\* non-token character is an error. A "+" after the first character of the
\* subtype marks the suffix (the last such "+" wins).
MimeParse(v) ==
    LET slash == FirstNonToken(v, 1)
    IN IF slash = 0 \/ slash = 1 \/ v[slash] # "/"
       THEN [ok |-> FALSE]
       ELSE IF FirstNonToken(v, slash + 1) # 0
       THEN [ok |-> FALSE]
       ELSE LET pluses == {i \in (slash + 2)..Len(v) : v[i] = "+"}
                plus == IF pluses = {} THEN 0
                        ELSE CHOOSE i \in pluses : \A j \in pluses : j <= i
            IN [ok |-> TRUE,
                type |-> SubSeq(v, 1, slash - 1),
                subtype |-> SubSeq(v, slash + 1,
                                   IF plus = 0 THEN Len(v) ELSE plus - 1),
                hasSuffix |-> plus # 0,
                suffix |-> IF plus = 0 THEN <<>> ELSE SubSeq(v, plus + 1, Len(v))]

\* Mutant: && where the source has || between subtype and suffix.
IsXmlMime_and(mime) ==
    (mime.type = <<"application">> \/ mime.type = <<"text">>)
    /\ (mime.subtype = <<"xml">> /\ (mime.hasSuffix /\ mime.suffix = <<"xml">>))

IsXmlMime(mime) ==
    (mime.type = <<"application">> \/ mime.type = <<"text">>)
    /\ (mime.subtype = <<"xml">> \/ (mime.hasSuffix /\ mime.suffix = <<"xml">>))

xml_content_type(headers) ==
    IF CONTENT_TYPE \notin DOMAIN headers THEN FALSE
    ELSE LET content_type == headers[CONTENT_TYPE]
         IN IF ~to_str_ok(content_type) THEN FALSE
            ELSE LET mime == MimeParse(content_type)
                 IN IF ~mime.ok THEN FALSE
                    ELSE IsXmlMime(mime)

\* ------------------------------------------------ bodies, values, codec
Bodies == {"body_a", "body_b"}
Values == {"v1", "v2"}
DeErrors == {"missing field"}
SeErrors == {"unsupported value"}
EmptyBuffer == ""

DeOk(v) == [ok |-> TRUE, value |-> v, err |-> "-"]
DeErr(e) == [ok |-> FALSE, value |-> "-", err |-> e]
DecResults == {DeOk(v) : v \in Values} \cup {DeErr(e) : e \in DeErrors}

\* quick_xml::de::from_reader::<_, T>: some function of the bytes.
DecoderFunctions == [Bodies -> DecResults]

\* quick_xml::se::to_writer(&mut bytes, value): what the buffer holds when it
\* returns, and Ok or the error. A failing encoder may have written already.
SeOk(b) == [ok |-> TRUE, written |-> b, msg |-> "-"]
SeErr(b, m) == [ok |-> FALSE, written |-> b, msg |-> m]
EncResults ==
    {SeOk(b) : b \in Bodies}
    \cup {SeErr(b, m) : b \in Bodies \cup {EmptyBuffer}, m \in SeErrors}

\* Bytes::from_request: the whole body, or the collector's own rejection.
BytesErrors == {"LengthLimitError", "UnknownBodyError"}
CollectOk(b) == [ok |-> TRUE, bytes |-> b, err |-> "-"]
CollectErr(e) == [ok |-> FALSE, bytes |-> "-", err |-> e]
NotCollected == [ok |-> FALSE, bytes |-> "-", err |-> "-"]
CollectorResults(request) ==
    {CollectOk(request.body)} \cup {CollectErr(e) : e \in BytesErrors}

\* The status the collector's rejection answers with.
BytesRejectionStatus(e) == IF e = "LengthLimitError" THEN 413 ELSE 400

\* --------------------------------------------------------- outcomes
NoOutcome == [kind |-> "None", value |-> "-", err |-> "-"]
Envelope(v) == [kind |-> "Envelope", value |-> v, err |-> "-"]
MissingXMLContentType ==
    [kind |-> "MissingXMLContentType", value |-> "-", err |-> "-"]

\* rejection.rs: the conversions the ? operator applies, and the status of
\* each rejection's response.
XmlRejectionFromBytes(e) == [kind |-> "BytesRejection", value |-> "-", err |-> e]
XmlRejectionFromDe(e) == [kind |-> "XmlDeError", value |-> "-", err |-> e]
RejectionStatus(rej) ==
    CASE rej.kind = "MissingXMLContentType" -> 415
      [] rej.kind = "BytesRejection" -> BytesRejectionStatus(rej.err)
      [] rej.kind = "XmlDeError" -> 400

IsRejection(o) == o.kind \in {"MissingXMLContentType", "BytesRejection", "XmlDeError"}

\* --------------------------------------------------------- requests
SampleHeaderMaps ==
    {NoHeaders, WithContentType(ApplicationXml), WithContentType(ApplicationJson)}

NoRequest == [headers |-> NoHeaders, body |-> "-"]
NoOrigin == [value |-> "-", written |-> "-"]

\* --------------------------------------------------------- responses
INTERNAL_SERVER_ERROR == 500
NoResponse == [status |-> 0, contentType |-> "-", body |-> "-"]
NoEncode == [value |-> "-", ok |-> FALSE, written |-> "-", msg |-> "-"]

\* Vec<u8>::into_response and String::into_response: status 200 and the
\* body's own default Content-Type.
BytesResponse(b) ==
    [status |-> 200, contentType |-> "application/octet-stream", body |-> b]
StringResponse(s) ==
    [status |-> 200, contentType |-> "text/plain; charset=utf-8", body |-> s]
\* ([(CONTENT_TYPE, value)], body).into_response(): the header is inserted
\* over the body's own.
WithContentTypeHeader(value, r) == [r EXCEPT !.contentType = value]
WithStatus(code, r) == [r EXCEPT !.status = code]

VARIABLES
    de,         \* the XML decoder for the target type
    req,        \* req[r]: the request of task r
    pc,         \* pc[r]: idle, ready, buffering (suspended), done, cancelled
    log,        \* log[r]: the events of task r, in order
    collected,  \* collected[r]: what the collector returned to task r
    out,        \* out[r]: what from_request returned
    origin,     \* origin[r]: the encoded value a request's body came from
    enc,        \* the last encoder call: its value and its result
    resp,       \* the last response of into_response
    gateIn,     \* the header map given to the gate
    gateDone,   \* whether the gate has been applied to gateIn
    gateOut     \* its verdict

vars == <<de, req, pc, log, collected, out, origin, enc, resp,
          gateIn, gateDone, gateOut>>

decodeVars == <<req, pc, log, collected, out, origin>>
encodeVars == <<enc, resp>>
gateVars == <<gateIn, gateDone, gateOut>>

\* ------------------------------------------------ Xml::from_request
\* Up to the .await: the gate, then either the call of the collector or the
\* rejection.
\* Mutant: the body is buffered before the gate is consulted.
from_request_poll_buffer_first(request) ==
    [suspend |-> TRUE, events |-> <<"buffer">>, out |-> NoOutcome]

\* Mutant: the gate's verdict is inverted.
from_request_poll_inverted(request) ==
    IF ~xml_content_type(request.headers)
    THEN [suspend |-> TRUE, events |-> <<"gate", "buffer">>, out |-> NoOutcome]
    ELSE [suspend |-> FALSE, events |-> <<"gate", "return">>,
          out |-> MissingXMLContentType]

from_request_poll(request) ==
    IF xml_content_type(request.headers)
    THEN [suspend |-> TRUE, events |-> <<"gate", "buffer">>, out |-> NoOutcome]
    ELSE [suspend |-> FALSE, events |-> <<"gate", "return">>,
          out |-> MissingXMLContentType]

\* Mutant: a buffering failure is reported as a decoding failure.
from_request_resume_misclassified(decoder, res) ==
    IF ~res.ok
    THEN [events |-> <<"buffered_err", "return">>,
          out |-> XmlRejectionFromDe(res.err)]
    ELSE LET value == decoder[res.bytes]
         IN [events |-> <<"buffered_ok", "decode", "return">>,
             out |-> IF value.ok THEN Envelope(value.value)
                     ELSE XmlRejectionFromDe(value.err)]

\* Mutant: a decoding failure yields a default value (unwrap_or_default).
from_request_resume_default(decoder, res) ==
    IF ~res.ok
    THEN [events |-> <<"buffered_err", "return">>,
          out |-> XmlRejectionFromBytes(res.err)]
    ELSE LET value == decoder[res.bytes]
         IN [events |-> <<"buffered_ok", "decode", "return">>,
             out |-> IF value.ok THEN Envelope(value.value) ELSE Envelope("v1")]

\* Mutant: a failed buffering is tried once more before giving up.
from_request_resume_retry(decoder, res) ==
    IF ~res.ok
    THEN [events |-> <<"buffered_err", "buffer", "buffered_err", "return">>,
          out |-> XmlRejectionFromBytes(res.err)]
    ELSE LET value == decoder[res.bytes]
         IN [events |-> <<"buffered_ok", "decode", "return">>,
             out |-> IF value.ok THEN Envelope(value.value)
                     ELSE XmlRejectionFromDe(value.err)]

\* From the collector's answer to the return.
from_request_resume(decoder, res) ==
    IF ~res.ok
    THEN [events |-> <<"buffered_err", "return">>,
          out |-> XmlRejectionFromBytes(res.err)]
    ELSE LET value == decoder[res.bytes]
         IN IF ~value.ok
            THEN [events |-> <<"buffered_ok", "decode", "return">>,
                  out |-> XmlRejectionFromDe(value.err)]
            ELSE [events |-> <<"buffered_ok", "decode", "return">>,
                  out |-> Envelope(value.value)]

\* ------------------------------------------------ Xml::into_response
\* Mutant: the Content-Type header is not set on the success response.
into_response_no_header(res) ==
    IF res.ok
    THEN BytesResponse(res.written)
    ELSE WithStatus(INTERNAL_SERVER_ERROR,
             WithContentTypeHeader("text/plain; charset=utf-8",
                                   StringResponse(res.msg)))

\* Mutant: the error response carries the buffer instead of the message.
into_response_buffer(res) ==
    IF res.ok
    THEN WithContentTypeHeader("application/xml", BytesResponse(res.written))
    ELSE WithStatus(INTERNAL_SERVER_ERROR,
             WithContentTypeHeader("text/plain; charset=utf-8",
                                   StringResponse(res.written)))

\* Mutant: the success response carries bytes the encoder did not write.
into_response_other_bytes(res) ==
    IF res.ok
    THEN WithContentTypeHeader("application/xml",
             BytesResponse(CHOOSE b \in Bodies : b # res.written))
    ELSE WithStatus(INTERNAL_SERVER_ERROR,
             WithContentTypeHeader("text/plain; charset=utf-8",
                                   StringResponse(res.msg)))

into_response(res) ==
    IF res.ok
    THEN WithContentTypeHeader("application/xml", BytesResponse(res.written))
    ELSE WithStatus(INTERNAL_SERVER_ERROR,
             WithContentTypeHeader("text/plain; charset=utf-8",
                                   StringResponse(res.msg)))

\* ------------------------------------------------------------ Init
InitTasks ==
    /\ req = [r \in Requests |-> NoRequest]
    /\ pc = [r \in Requests |-> "idle"]
    /\ log = [r \in Requests |-> <<>>]
    /\ collected = [r \in Requests |-> NotCollected]
    /\ out = [r \in Requests |-> NoOutcome]
    /\ origin = [r \in Requests |-> NoOrigin]
    /\ enc = NoEncode
    /\ resp = NoResponse
    /\ gateDone = FALSE
    /\ gateOut = FALSE

Init ==
    /\ de \in DecoderFunctions
    /\ gateIn = NoHeaders
    /\ InitTasks

InitGate ==
    /\ de = [b \in Bodies |-> DeErr("missing field")]
    /\ gateIn \in GateHeaderMaps
    /\ InitTasks

\* --------------------------------------------------------- actions
\* A request arrives and the host calls from_request for it.
Receive(r) ==
    /\ pc[r] = "idle"
    /\ \E h \in SampleHeaderMaps, b \in Bodies :
          req' = [req EXCEPT ![r] = [headers |-> h, body |-> b]]
    /\ pc' = [pc EXCEPT ![r] = "ready"]
    /\ UNCHANGED <<de, log, collected, out, origin, encodeVars, gateVars>>

\* A client sends the body of the last successful response back, as XML.
Resubmit(r) ==
    /\ pc[r] = "idle"
    /\ resp.status = 200
    /\ req' = [req EXCEPT ![r] =
                  [headers |-> WithContentType(ApplicationXml), body |-> resp.body]]
    /\ origin' = [origin EXCEPT ![r] = [value |-> enc.value, written |-> enc.written]]
    /\ pc' = [pc EXCEPT ![r] = "ready"]
    /\ UNCHANGED <<de, log, collected, out, encodeVars, gateVars>>

\* The first poll of the future: runs to the .await or to the return.
Poll(r) ==
    /\ pc[r] = "ready"
    /\ LET step == from_request_poll(req[r])
       IN /\ log' = [log EXCEPT ![r] = log[r] \o step.events]
          /\ out' = [out EXCEPT ![r] = step.out]
          /\ pc' = [pc EXCEPT ![r] = IF step.suspend THEN "buffering" ELSE "done"]
    /\ UNCHANGED <<de, req, collected, origin, encodeVars, gateVars>>

\* The collector answers and the future runs to its return.
Resume(r) ==
    /\ pc[r] = "buffering"
    /\ \E res \in CollectorResults(req[r]) :
          LET step == from_request_resume(de, res)
          IN /\ collected' = [collected EXCEPT ![r] = res]
             /\ log' = [log EXCEPT ![r] = log[r] \o step.events]
             /\ out' = [out EXCEPT ![r] = step.out]
    /\ pc' = [pc EXCEPT ![r] = "done"]
    /\ UNCHANGED <<de, req, origin, encodeVars, gateVars>>

\* Mutant: the tasks share the buffer, and dropping one task fails the rest.
Cancel_shared_buffer(r) ==
    /\ pc[r] = "buffering"
    /\ pc' = [s \in Requests |->
                 IF s = r THEN "cancelled"
                 ELSE IF pc[s] = "buffering" THEN "done" ELSE pc[s]]
    /\ out' = [s \in Requests |->
                 IF s # r /\ pc[s] = "buffering"
                 THEN XmlRejectionFromBytes("UnknownBodyError") ELSE out[s]]
    /\ UNCHANGED <<de, req, log, collected, origin, encodeVars, gateVars>>

\* The task is dropped while suspended at the .await.
Cancel(r) ==
    /\ pc[r] = "buffering"
    /\ pc' = [pc EXCEPT ![r] = "cancelled"]
    /\ UNCHANGED <<de, req, log, collected, out, origin, encodeVars, gateVars>>

\* A handler returns Xml(v) and the host converts it.
IntoResponse(v) ==
    /\ \E res \in EncResults :
          /\ enc' = [value |-> v, ok |-> res.ok, written |-> res.written,
                     msg |-> res.msg]
          /\ resp' = into_response(res)
    /\ UNCHANGED <<de, decodeVars, gateVars>>

\* The gate applied to a header map.
CheckGate ==
    /\ ~gateDone
    /\ gateDone' = TRUE
    /\ gateOut' = xml_content_type(gateIn)
    /\ UNCHANGED <<de, decodeVars, encodeVars, gateIn>>

Next == \E r \in Requests : Receive(r) \/ Poll(r) \/ Resume(r) \/ Cancel(r)

Spec == Init /\ [][Next]_vars

NextEncode ==
    \/ \E v \in Values : IntoResponse(v)
    \/ Resubmit(1)
    \/ Poll(1)
    \/ Resume(1)
    \/ Cancel(1)

SpecEncode == Init /\ [][NextEncode]_vars

NextGate == CheckGate

SpecGate == InitGate /\ [][NextGate]_vars

\* ------------------------------------------------------------ claims
Has(seq, e) == \E i \in 1..Len(seq) : seq[i] = e
IsPrefix(s, t) == Len(s) <= Len(t) /\ SubSeq(t, 1, Len(s)) = s
Gate(r) == xml_content_type(req[r].headers)

\* What the claim says of a header map: a Content-Type that is text, parses
\* as a MIME type, of type application or text, with subtype or suffix xml.
IsXmlHeaderMap(h) ==
    /\ CONTENT_TYPE \in DOMAIN h
    /\ to_str_ok(h[CONTENT_TYPE])
    /\ MimeParse(h[CONTENT_TYPE]).ok
    /\ MimeParse(h[CONTENT_TYPE]).type \in {<<"application">>, <<"text">>}
    /\ \/ MimeParse(h[CONTENT_TYPE]).subtype = <<"xml">>
       \/ /\ MimeParse(h[CONTENT_TYPE]).hasSuffix
          /\ MimeParse(h[CONTENT_TYPE]).suffix = <<"xml">>

\* C1: the gate returns true exactly for the header maps whose Content-Type
\* is text, parses as a MIME type, has type application or text and subtype
\* or suffix xml; in particular true for application/xml, text/xml and
\* application/vnd.custom+xml, false without the header, for application/json
\* and for "not a mime".
C1_GateIffXmlMime ==
    gateDone =>
        /\ gateOut = IsXmlHeaderMap(gateIn)
        /\ gateIn \in {WithContentType(ApplicationXml), WithContentType(TextXml),
                       WithContentType(VendorXml)} => gateOut
        /\ gateIn \in {NoHeaders, WithContentType(ApplicationJson),
                       WithContentType(NotAMime)} => ~gateOut
        /\ (CONTENT_TYPE \in DOMAIN gateIn /\ ~to_str_ok(gateIn[CONTENT_TYPE]))
               => ~gateOut

C1_Witness ==
    gateDone /\ gateOut /\ gateIn = WithContentType(VendorXml)

\* C2: a request the gate refuses ends with MissingXMLContentType, and neither
\* the collector nor the decoder is ever invoked for it.
C2_GateFalseNoBuffering ==
    \A r \in Requests :
        (pc[r] # "idle" /\ ~Gate(r)) =>
            /\ pc[r] \in {"ready", "done"}
            /\ ~Has(log[r], "buffer")
            /\ ~Has(log[r], "decode")
            /\ collected[r] = NotCollected
            /\ pc[r] = "done" => out[r] = MissingXMLContentType
            /\ pc[r] = "ready" => out[r] = NoOutcome

C2_Witness ==
    \E r \in Requests :
        /\ pc[r] = "done"
        /\ req[r].headers = WithContentType(ApplicationJson)
        /\ out[r] = MissingXMLContentType
        /\ log[r] = <<"gate", "return">>

\* C3: a request that passes the gate and whose buffering fails ends with
\* BytesRejection carrying the collector's error and status, and the decoder
\* is never invoked for it.
C3_BufferingFailure ==
    \A r \in Requests :
        (pc[r] = "done" /\ Gate(r) /\ ~collected[r].ok) =>
            /\ out[r].kind = "BytesRejection"
            /\ out[r].err = collected[r].err
            /\ RejectionStatus(out[r]) = BytesRejectionStatus(collected[r].err)
            /\ ~Has(log[r], "decode")

C3_Witness ==
    \E r \in Requests :
        /\ pc[r] = "done"
        /\ Gate(r)
        /\ collected[r] = CollectErr("LengthLimitError")
        /\ out[r] = XmlRejectionFromBytes("LengthLimitError")

\* C4: when the gate passes, the body is buffered and the decoder fails on the
\* bytes, the run ends with XmlDeError carrying the decoder's error, and with
\* no envelope.
C4_DecodeFailure ==
    \A r \in Requests :
        (pc[r] = "done" /\ Gate(r) /\ collected[r].ok
            /\ ~de[collected[r].bytes].ok) =>
            /\ out[r].kind = "XmlDeError"
            /\ out[r].err = de[collected[r].bytes].err
            /\ out[r].value = "-"

C4_Witness ==
    \E r \in Requests :
        /\ pc[r] = "done"
        /\ Gate(r)
        /\ collected[r].ok
        /\ ~de[collected[r].bytes].ok
        /\ out[r].kind = "XmlDeError"

\* C5: from_request returns an envelope exactly when the gate passes, the
\* buffering succeeds and the decoder succeeds; the envelope holds the value
\* the decoder returned for the bytes the collector returned.
C5_EnvelopeIff ==
    \A r \in Requests :
        /\ out[r].kind = "Envelope" <=>
               (pc[r] = "done" /\ Gate(r) /\ collected[r].ok
                   /\ de[collected[r].bytes].ok)
        /\ out[r].kind = "Envelope" =>
               out[r] = Envelope(de[collected[r].bytes].value)

C5_Witness ==
    \E r \in Requests :
        /\ pc[r] = "done"
        /\ collected[r] = CollectOk(req[r].body)
        /\ out[r] = Envelope(de[req[r].body].value)

\* C6: when the encoder succeeds, the response has status 200, Content-Type
\* application/xml and the bytes the encoder wrote as its body.
C6_EncodeSuccess ==
    enc.ok =>
        resp = [status |-> 200, contentType |-> "application/xml",
                body |-> enc.written]

C6_Witness ==
    enc.ok /\ resp.status = 200 /\ resp.body = "body_a"

\* C7: into_response always returns a response; when the encoder fails it has
\* status 500, Content-Type text/plain; charset=utf-8 and the error's message
\* as its body, not the bytes written before the failure.
C7_EncodeFailure ==
    enc.value # "-" =>
        /\ resp # NoResponse
        /\ ~enc.ok =>
               resp = [status |-> 500,
                       contentType |-> "text/plain; charset=utf-8",
                       body |-> enc.msg]

C7_Witness ==
    /\ enc.value # "-"
    /\ ~enc.ok
    /\ enc.written = "body_a"
    /\ resp.status = 500
    /\ resp.body = "unsupported value"

\* C8 as stated: the body of a successful response, sent back with an XML
\* Content-Type and buffered successfully, decodes to an envelope holding the
\* value that was encoded.
C8_RoundTrip ==
    \A r \in Requests :
        (origin[r] # NoOrigin /\ pc[r] = "done" /\ collected[r].ok) =>
            out[r] = Envelope(origin[r].value)

\* C8 as amended: the adapter adds nothing to the codec. The bytes decoded are
\* the bytes the encoder wrote for v, and the outcome is the decoder's verdict
\* on them: an envelope holding v exactly when the decoder maps them back to
\* v, an envelope holding the decoder's other value, or XmlDeError.
C8_RoundTripUpToCodec ==
    \A r \in Requests :
        (origin[r] # NoOrigin /\ pc[r] = "done" /\ collected[r].ok) =>
            /\ collected[r].bytes = origin[r].written
            /\ de[origin[r].written].ok =>
                   out[r] = Envelope(de[origin[r].written].value)
            /\ ~de[origin[r].written].ok =>
                   out[r] = XmlRejectionFromDe(de[origin[r].written].err)
            /\ out[r] = Envelope(origin[r].value) <=>
                   de[origin[r].written] = DeOk(origin[r].value)

C8_Witness ==
    \E r \in Requests :
        /\ origin[r] # NoOrigin
        /\ pc[r] = "done"
        /\ collected[r] = CollectOk(origin[r].written)
        /\ out[r] = Envelope(origin[r].value)

\* C9: in every run of from_request the events are the gate, then the
\* buffering, then the decoding, each at most once, decoding only after a
\* successful buffering, and the run ends in exactly one outcome.
AllowedRuns ==
    {<<"gate", "return">>,
     <<"gate", "buffer", "buffered_err", "return">>,
     <<"gate", "buffer", "buffered_ok", "decode", "return">>}

C9_Ordering ==
    \A r \in Requests :
        /\ \E run \in AllowedRuns : IsPrefix(log[r], run)
        /\ pc[r] = "done" <=> log[r] \in AllowedRuns
        /\ pc[r] = "done" <=> out[r] # NoOutcome
        /\ out[r] # NoOutcome => (out[r].kind = "Envelope" \/ IsRejection(out[r]))
        /\ out[r].kind = "Envelope" => Has(log[r], "decode")
        /\ pc[r] \in {"idle", "ready"} => log[r] = <<>>
        /\ pc[r] \in {"buffering", "cancelled"} => log[r] = <<"gate", "buffer">>

C9_Witness ==
    \E r \in Requests :
        /\ log[r] = <<"gate", "buffer", "buffered_ok", "decode", "return">>
        /\ out[r].kind = "Envelope"

\* C10: a task cancelled while suspended in the buffering never invokes the
\* decoder and never has an envelope, then or later; cancelling it changes
\* nothing of any other task.
C10_Cancellation ==
    [][\A r \in Requests :
          /\ (pc[r] = "buffering" /\ pc'[r] = "cancelled") =>
                /\ out'[r] = NoOutcome
                /\ ~Has(log'[r], "decode")
                /\ de' = de
                /\ \A s \in Requests \ {r} :
                      /\ pc'[s] = pc[s]
                      /\ out'[s] = out[s]
                      /\ req'[s] = req[s]
                      /\ log'[s] = log[s]
                      /\ collected'[s] = collected[s]
          /\ pc[r] = "cancelled" =>
                /\ pc'[r] = "cancelled"
                /\ out'[r] = NoOutcome
                /\ log'[r] = log[r]]_vars

C10_Witness ==
    \E r, s \in Requests :
        /\ r # s
        /\ pc[r] = "cancelled"
        /\ pc[s] = "done"
        /\ out[s].kind = "Envelope"
        /\ out[r] = NoOutcome

====
